---- MODULE Spec2Model ----
(***************************************************************************)
(* Model of the "Colorize and draw the temperatures" cell of               *)
(* notebooks/visualization/python-awips-WorkingWithSurfaceObs.ipynb:       *)
(* sentinel masking, Celsius-to-Fahrenheit conversion, and the loop that    *)
(* buckets the converted temperatures by threshold level and hands one      *)
(* layer per level to the station plot.                                     *)
(*                                                                          *)
(* Floating-point values are held as fixed-point integers counting tenths   *)
(* of a degree, so c*1.8+32 is exact for every whole-degree input, and a    *)
(* value is a record [nan, v]: nan = TRUE is numpy's not-a-number, for      *)
(* which every comparison is false.                                         *)
(***************************************************************************)
EXTENDS Integers, Sequences, FiniteSets

VARIABLES obs, levels, colors, tair, i, layers, pc

vars == <<obs, levels, colors, tair, i, layers, pc>>

----------------------------------------------------------------------------
(* Bounds and input domains *)

MaxLen == 4

\* whole-degree Celsius readings offered by the server, the sentinel included
Readings == {-9999, -20, 5, 10, 25, 75}

defaultColors == <<"purple", "c", "royalblue", "darkgreen", "green", "y", "orange", "r">>

defaultLevels == <<0, 10, 20, 30, 40, 50, 60, 70>>

\* threshold schedules the cell may be edited to: well-formed and malformed
Schedules ==
    { [levels |-> defaultLevels, colors |-> defaultColors],
      [levels |-> <<50, 60, 70>>, colors |-> <<"y", "orange", "r">>],
      [levels |-> <<0, 10, 20, 30, 40, 50>>,
       colors |-> <<"purple", "c", "royalblue", "darkgreen", "green", "y">>],
      [levels |-> <<41, 50, 77, 167>>, colors |-> <<"green", "y", "orange", "r">>],
      [levels |-> <<50, 77>>, colors |-> <<"y", "r">>],
      [levels |-> <<41>>, colors |-> <<"green">>],
      [levels |-> <<0, 10, 20, 30, 40, 50, 60>>, colors |-> defaultColors],
      [levels |-> defaultLevels, colors |-> <<"purple", "c", "royalblue">>],
      [levels |-> <<0, 20, 10>>, colors |-> <<"purple", "c", "royalblue">>],
      [levels |-> <<0, 50, 50>>, colors |-> <<"purple", "c", "royalblue">>] }

SeqsUpTo(S, n) == UNION { [1..m -> S] : m \in 0..n }

----------------------------------------------------------------------------
(* Floating-point values *)

NaN == [nan |-> TRUE, v |-> 0]

Num(x) == [nan |-> FALSE, v |-> x]

\* a whole number as a float, in tenths
Tenths(x) == x * 10

\* the missing-value sentinel -9999.0
Sentinel == -99990

\* numpy elementwise comparisons against a scalar: false for nan
Lt(x, t) == ~x.nan /\ x.v < t

Ge(x, t) == ~x.nan /\ x.v >= t

Eq(x, t) == ~x.nan /\ x.v = t

\* np.array(obs['temperature'], dtype=float)
ToArray(s) == [k \in DOMAIN s |-> Num(Tenths(s[k]))]

\* tair[tair == -9999.0] = 'nan'
MaskSentinelNever(a) == a

MaskSentinel(a) == [k \in DOMAIN a |-> IF Eq(a[k], Sentinel) THEN NaN ELSE a[k]]

\* (x*1.8)+32 on one element; nan propagates
CtoFNoOffsetScale(x) == IF x.nan THEN NaN ELSE Num((x.v * 18) \div 10 + 32)

CtoF(x) == IF x.nan THEN NaN ELSE Num((x.v * 18) \div 10 + Tenths(32))

\* tair = (tair*1.8)+32
Convert(a) == [k \in DOMAIN a |-> CtoF(a[k])]

----------------------------------------------------------------------------
(* Threshold bucketing *)

Range(s) == { s[k] : k \in DOMAIN s }

max(s) == CHOOSE x \in Range(s) : \A y \in Range(s) : y <= x

min(s) == CHOOSE x \in Range(s) : \A y \in Range(s) : x <= y

\* subtair[(subtair < temp)] = 'nan'
NanBelowOrEqual(a, temp) ==
    [k \in DOMAIN a |-> IF ~a[k].nan /\ a[k].v <= Tenths(temp) THEN NaN ELSE a[k]]

NanBelow(a, temp) ==
    [k \in DOMAIN a |-> IF Lt(a[k], Tenths(temp)) THEN NaN ELSE a[k]]

\* subtair[(subtair >= temp)] = 'nan'
NanAbove(a, temp) ==
    [k \in DOMAIN a |-> IF ~a[k].nan /\ a[k].v > Tenths(temp) THEN NaN ELSE a[k]]

NanAtOrAbove(a, temp) ==
    [k \in DOMAIN a |-> IF Ge(a[k], Tenths(temp)) THEN NaN ELSE a[k]]

\* the interior branch of iteration idx (0-based): both assignments
InteriorBinSameLevel(a, lv, idx) == NanAtOrAbove(NanBelow(a, lv[idx + 1]), lv[idx + 1])

InteriorBin(a, lv, idx) == NanAtOrAbove(NanBelow(a, lv[idx + 1]), lv[idx + 2])

\* the if / elif / else of one iteration, for temp = levels[idx] (0-based)
Bucket(a, lv, idx) ==
    LET temp == lv[idx + 1] IN
    IF temp = max(lv) THEN NanBelow(a, temp)
    ELSE IF temp = min(lv) THEN NanAtOrAbove(a, temp)
    ELSE InteriorBin(a, lv, idx)

\* the else branch reads levels[i+1] past the end of the list
NextLevelMissing(lv, idx) ==
    LET temp == lv[idx + 1] IN
    /\ temp # max(lv)
    /\ temp # min(lv)
    /\ idx + 1 >= Len(lv)

\* stationplot.plot_parameter('C', subtair, color=colors[i]) on the shared axes
plot_parameterFirstColor(canvas, subtair, cl, idx) ==
    Append(canvas, [param |-> "C", data |-> subtair, color |-> cl[1]])

plot_parameter(canvas, subtair, cl, idx) ==
    Append(canvas, [param |-> "C", data |-> subtair, color |-> cl[idx + 1]])

----------------------------------------------------------------------------
(* The cell as a state machine *)

Init ==
    /\ obs \in SeqsUpTo(Readings, MaxLen)
    /\ \E s \in Schedules : levels = s.levels /\ colors = s.colors
    /\ tair = ToArray(obs)
    /\ i = 0
    /\ layers = <<>>
    /\ pc = "mask"

\* line 205
Mask ==
    /\ pc = "mask"
    /\ tair' = MaskSentinel(tair)
    /\ pc' = "convert"
    /\ UNCHANGED <<obs, levels, colors, i, layers>>

\* line 206
ConvertUnits ==
    /\ pc = "convert"
    /\ tair' = Convert(tair)
    /\ pc' = "loop"
    /\ UNCHANGED <<obs, levels, colors, i, layers>>

\* one iteration of the loop that buckets and plots
BucketAndPlot ==
    /\ pc = "loop"
    /\ i < Len(levels)
    /\ ~NextLevelMissing(levels, i)
    /\ i < Len(colors)
    /\ layers' = plot_parameter(layers, Bucket(tair, levels, i), colors, i)
    /\ i' = i + 1
    /\ UNCHANGED <<obs, levels, colors, tair, pc>>

\* one iteration whose else branch raises IndexError on levels[i+1]
LevelIndexError ==
    /\ pc = "loop"
    /\ i < Len(levels)
    /\ NextLevelMissing(levels, i)
    /\ pc' = "error"
    /\ UNCHANGED <<obs, levels, colors, tair, i, layers>>

\* one iteration that raises IndexError on colors[i]
ColorIndexError ==
    /\ pc = "loop"
    /\ i < Len(levels)
    /\ ~NextLevelMissing(levels, i)
    /\ i >= Len(colors)
    /\ pc' = "error"
    /\ UNCHANGED <<obs, levels, colors, tair, i, layers>>

\* enumerate(levels) is exhausted
LoopExit ==
    /\ pc = "loop"
    /\ i = Len(levels)
    /\ pc' = "done"
    /\ UNCHANGED <<obs, levels, colors, tair, i, layers>>

Next ==
    \/ Mask
    \/ ConvertUnits
    \/ BucketAndPlot
    \/ LevelIndexError
    \/ ColorIndexError
    \/ LoopExit

Spec == Init /\ [][Next]_vars

----------------------------------------------------------------------------
(* Vocabulary of the properties *)

N == Len(levels)

StrictlyIncreasing(lv) == \A a, b \in DOMAIN lv : a < b => lv[a] < lv[b]

WellFormed == Len(levels) = Len(colors) /\ StrictlyIncreasing(levels)

\* the conversion and the masking are over: tair holds the Fahrenheit array
Converted == pc \in {"loop", "done", "error"}

\* position k is a number, not nan, in the layer drawn for bin b (1-based)
Defined(b, k) == ~layers[b].data[k].nan

\* position k of bin b still holds the converted value
Kept(b, k) == ~tair[k].nan /\ layers[b].data[k] = tair[k]

BinsHolding(k) == { b \in 1..Len(layers) : Defined(b, k) }

\* v lies in [lo, hi) for levels lo and hi
Between(x, lo, hi) == Ge(x, Tenths(lo)) /\ Lt(x, Tenths(hi))

\* the bucketing policy as the specification words it, for bin b (1-based)
InBin(x, b) ==
    IF b = N THEN Ge(x, Tenths(levels[N]))
    ELSE IF b = 1 THEN Lt(x, Tenths(levels[1]))
    ELSE Between(x, levels[b], levels[b + 1])

----------------------------------------------------------------------------
(* C1: for a strictly increasing schedule, after the loop has run over all  *)
(* levels, every converted value v with levels[0] <= v < levels[-1] is      *)
(* defined in exactly one interior bin.  The code drops the values in       *)
(* [levels[0], levels[1]), so this is violated.                             *)
C1_ExactlyOneInteriorBin ==
    (pc = "done" /\ StrictlyIncreasing(levels) /\ N >= 1) =>
        \A k \in DOMAIN tair :
            Between(tair[k], levels[1], levels[N]) =>
                Cardinality({ b \in BinsHolding(k) : 1 < b /\ b < N }) = 1

(* C2: every position whose raw value is the sentinel is nan in the         *)
(* converted array and in the filtered array of every bin drawn.            *)
C2_SentinelExcluded ==
    \A k \in DOMAIN obs :
        obs[k] = -9999 =>
            /\ Converted => tair[k] = NaN
            /\ pc = "convert" => tair[k] = NaN
            /\ \A b \in 1..Len(layers) : layers[b].data[k] = NaN

C2_Witness ==
    /\ pc = "done"
    /\ Len(layers) >= 2
    /\ \E k \in DOMAIN obs : obs[k] = -9999 /\ tair[k] = NaN
    /\ \E k \in DOMAIN obs : \E b \in 1..Len(layers) : Defined(b, k)

(* C3: a malformed schedule (lengths differ, or levels not strictly         *)
(* increasing) fails before any bin is bucketed or drawn.  The code has no  *)
(* validation, so this is violated.                                         *)
C3_MalformedFailsFast ==
    ~WellFormed => (Len(layers) = 0 /\ pc # "done")

(* C4: for a strictly increasing schedule, once the pass is over, the top   *)
(* bin was drawn and every converted v >= levels[-1] is kept in the top    *)
(* bin and is nan in every other bin.                                       *)
C4_TopBinInclusive ==
    (pc = "done" /\ StrictlyIncreasing(levels) /\ N >= 1) =>
        /\ Len(layers) = N
        /\ \A k \in DOMAIN tair :
               Ge(tair[k], Tenths(levels[N])) =>
                   \A b \in 1..Len(layers) :
                       IF b = N THEN Kept(b, k) ELSE ~Defined(b, k)

C4_Witness ==
    /\ pc = "done"
    /\ StrictlyIncreasing(levels)
    /\ N >= 3
    /\ Len(layers) = N
    /\ \E k \in DOMAIN tair : Eq(tair[k], Tenths(levels[N])) /\ Kept(N, k)
    /\ \E k \in DOMAIN tair : Ge(tair[k], Tenths(levels[N] + 1)) /\ Kept(N, k)

(* C5: for a strictly increasing schedule of at least two levels, the first *)
(* bin keeps exactly the converted values v < levels[0] and is nan          *)
(* everywhere else, in particular where v = levels[0].                      *)
C5_BottomBin ==
    (StrictlyIncreasing(levels) /\ N >= 2 /\ Len(layers) >= 1) =>
        \A k \in DOMAIN tair :
            IF Lt(tair[k], Tenths(levels[1]))
            THEN Kept(1, k)
            ELSE layers[1].data[k] = NaN

C5_Witness ==
    /\ StrictlyIncreasing(levels)
    /\ N >= 2
    /\ Len(layers) >= 1
    /\ \E k \in DOMAIN tair : Eq(tair[k], Tenths(levels[1])) /\ ~Defined(1, k)
    /\ \E k \in DOMAIN tair : Lt(tair[k], Tenths(levels[1])) /\ Kept(1, k)

(* C6: for a strictly increasing schedule and every level that is neither   *)
(* first nor last, the bin keeps at their converted value exactly the       *)
(* entries v with levels[i] <= v < levels[i+1] and is nan everywhere else.  *)
C6_InteriorBin ==
    StrictlyIncreasing(levels) =>
        \A b \in 1..Len(layers) :
            (1 < b /\ b < N) =>
                \A k \in DOMAIN tair :
                    IF Between(tair[k], levels[b], levels[b + 1])
                    THEN Kept(b, k)
                    ELSE layers[b].data[k] = NaN

C6_Witness ==
    /\ StrictlyIncreasing(levels)
    /\ \E b \in 1..Len(layers) :
           /\ 1 < b /\ b < N
           /\ \E k \in DOMAIN tair : Eq(tair[k], Tenths(levels[b])) /\ Kept(b, k)
           /\ \E k \in DOMAIN tair :
                  Eq(tair[k], Tenths(levels[b + 1])) /\ ~Defined(b, k)
           /\ \E k \in DOMAIN tair :
                  Lt(tair[k], Tenths(levels[b])) /\ ~Defined(b, k)

(* C7: for a well-formed schedule of N levels and an input of length n, the *)
(* pass draws exactly N layers in ascending level order; layer i is the     *)
(* filtered array of bin i with colors[i], and every one has length n.      *)
C7_LayersParallel ==
    WellFormed =>
        /\ Len(layers) = i
        /\ pc = "done" => Len(layers) = N
        /\ \A b \in 1..Len(layers) :
               /\ layers[b].color = colors[b]
               /\ Len(layers[b].data) = Len(obs)
               /\ \A k \in DOMAIN tair :
                      layers[b].data[k] = IF InBin(tair[k], b) THEN tair[k] ELSE NaN

C7_Witness ==
    /\ WellFormed
    /\ pc = "done"
    /\ N >= 3
    /\ Len(layers) = N
    /\ Len(obs) >= 2
    /\ \E b, c \in 1..N : b # c /\ layers[b].data # layers[c].data

(* C8: every non-sentinel Celsius input c converts to c*1.8+32 (here in     *)
(* tenths: 18*c + 320), and bins are decided on the converted value: for    *)
(* [-9999.0, 5.0, 25.0, 75.0] under the default schedule the converted      *)
(* array is [nan, 41.0, 77.0, 167.0] and 77.0 is in the level-70 bin, not   *)
(* in the level-20 or level-30 bin.                                         *)
C8_ConvertedUnits ==
    /\ Converted =>
           \A k \in DOMAIN obs : obs[k] # -9999 => tair[k] = Num(18 * obs[k] + 320)
    /\ ( /\ pc = "done"
         /\ obs = <<-9999, 5, 25, 75>>
         /\ levels = <<0, 10, 20, 30, 40, 50, 60, 70>>
         /\ Len(colors) = 8 ) =>
           /\ tair = <<NaN, Num(410), Num(770), Num(1670)>>
           /\ layers[8].data[3] = Num(770)
           /\ layers[3].data[3] = NaN
           /\ layers[4].data[3] = NaN

C8_Witness ==
    /\ pc = "done"
    /\ obs = <<-9999, 5, 25, 75>>
    /\ levels = <<0, 10, 20, 30, 40, 50, 60, 70>>
    /\ Len(colors) = 8
    /\ Len(layers) = 8

(* C9: there is no partial failure: when an error has been raised, no bin's *)
(* layer has been drawn.  The code raises IndexError in the middle of the   *)
(* loop for some malformed schedules, so this is violated.                  *)
C9_NoPartialFailure ==
    pc = "error" => Len(layers) = 0

(* C10: for a strictly increasing schedule of at least two levels, every    *)
(* defined converted value is defined in at most one bin over the whole     *)
(* pass, and those defined in no bin are exactly the v with                 *)
(* levels[0] <= v < levels[1].                                              *)
C10_DisjointBinsAndGap ==
    (pc = "done" /\ StrictlyIncreasing(levels) /\ N >= 2) =>
        \A k \in DOMAIN tair :
            ~tair[k].nan =>
                /\ Cardinality(BinsHolding(k)) <= 1
                /\ BinsHolding(k) = {} <=> Between(tair[k], levels[1], levels[2])

C10_Witness ==
    /\ pc = "done"
    /\ StrictlyIncreasing(levels)
    /\ N >= 3
    /\ \E k \in DOMAIN tair : ~tair[k].nan /\ BinsHolding(k) = {}
    /\ \E k \in DOMAIN tair : BinsHolding(k) = {1}
    /\ \E k \in DOMAIN tair : BinsHolding(k) = {N}
    /\ \E k \in DOMAIN tair : \E b \in 2..(N - 1) : BinsHolding(k) = {b}

====
